---- MODULE Spec2Model ----
(***************************************************************************)
(* A model of the single-run content pipeline (pipeline/generate.py and    *)
(* its helpers).  Strings are sequences of one-character strings, so that  *)
(* the text conversions of pipeline/util.py are computed, not assumed.     *)
(* The persisted state is the deployment's files: processed_urls.txt,      *)
(* data/articles.json, data/last_run.json, the site directory, the og/     *)
(* image cache and the .lite_ran marker.                                   *)
(***************************************************************************)
EXTENDS Integers, Sequences, FiniteSets, TLC

----------------------------------------------------------------------------
(* Text helpers: Python's str methods on sequences of characters.          *)

\* Characters str.strip() removes and the regex class \s matches.
Whitespace == {" ", "\n"}

\* The lower-case form of one character (str.lower()).
LowerCh(c) ==
    CASE c = "A" -> "a"
      [] c = "B" -> "b"
      [] c = "C" -> "c"
      [] c = "D" -> "d"
      [] c = "E" -> "e"
      [] c = "I" -> "i"
      [] c = "L" -> "l"
      [] c = "P" -> "p"
      [] c = "R" -> "r"
      [] c = "S" -> "s"
      [] c = "T" -> "t"
      [] OTHER -> c

Lower(s) == [i \in 1..Len(s) |-> LowerCh(s[i])]

\* Characters the regex class [a-z0-9] matches.
AlNum == {"a", "b", "c", "d", "e", "h", "i", "l", "p", "r", "s", "t", "u", "v", "x",
          "0", "1", "2"}

\* Characters the regex class \w matches.
WordChars == AlNum \cup {"A", "B", "C", "D", "E", "I", "L", "P", "R", "S", "T", "_"}

RECURSIVE LStrip(_)
LStrip(s) ==
    IF s # <<>> /\ Head(s) \in Whitespace THEN LStrip(Tail(s)) ELSE s

RECURSIVE RStrip(_)
RStrip(s) ==
    IF s # <<>> /\ s[Len(s)] \in Whitespace
    THEN RStrip(SubSeq(s, 1, Len(s) - 1))
    ELSE s

Strip(s) == LStrip(RStrip(s))

\* s.rstrip(ch) for a one-character argument.
RECURSIVE RStripCh(_, _)
RStripCh(s, ch) ==
    IF s # <<>> /\ s[Len(s)] = ch
    THEN RStripCh(SubSeq(s, 1, Len(s) - 1), ch)
    ELSE s

\* The index of the first character of s that is in set, or Len(s) + 1.
FirstIn(s, set) ==
    IF \E i \in 1..Len(s) : s[i] \in set
    THEN CHOOSE i \in 1..Len(s) : s[i] \in set /\ \A j \in 1..(i - 1) : s[j] \notin set
    ELSE Len(s) + 1

\* sub in s (Python's substring test).
Contains(s, sub) ==
    \E i \in 0..(Len(s) - Len(sub)) : SubSeq(s, i + 1, i + Len(sub)) = sub

\* s.split(): the maximal runs of non-whitespace characters, in order.
RECURSIVE Split(_)
Split(s) ==
    LET t == LStrip(s)
        n == FirstIn(t, Whitespace)
    IN  IF t = <<>> THEN <<>>
        ELSE <<SubSeq(t, 1, n - 1)>> \o Split(SubSeq(t, n, Len(t)))

\* s.splitlines(): the lines of s, without their line ends.
RECURSIVE SplitLines(_)
SplitLines(s) ==
    LET n == FirstIn(s, {"\n"})
    IN  IF s = <<>> THEN <<>>
        ELSE <<SubSeq(s, 1, n - 1)>> \o SplitLines(SubSeq(s, n + 1, Len(s)))

----------------------------------------------------------------------------
(* pipeline/util.py                                                        *)

\* strip, cut the query string or fragment, then drop trailing slashes.
normalize_url(u) ==
    LET s == Strip(u)
        cut == SubSeq(s, 1, FirstIn(s, {"?", "#"}) - 1)
    IN  RStripCh(cut, "/")

\* Parts of at most this many characters are no tokens.
ShortToken == 2

\* lower-case, every character outside [a-z0-9\s] becomes a space, split on
\* whitespace, keep the parts longer than two characters, as a set.
simple_tokens(s) ==
    LET low == Lower(s)
        clean == [i \in 1..Len(low) |->
                    IF low[i] \in AlNum \cup Whitespace THEN low[i] ELSE " "]
        parts == Split(clean)
    IN  {parts[i] : i \in {j \in 1..Len(parts) : Len(parts[j]) > ShortToken}}

\* The similarity as the pair <<numerator, denominator>> of the quotient the
\* code computes: 1.0 for two empty sets, 0.0 when exactly one is empty.
jaccard(a, b) ==
    IF a = {} /\ b = {} THEN <<1, 1>>
    ELSE IF a = {} \/ b = {} THEN <<0, 1>>
    ELSE <<Cardinality(a \cap b), Cardinality(a \cup b)>>

\* q >= num/den and q > num/den for a quotient pair q (den > 0).
RatioGE(q, num, den) == q[1] * den >= num * q[2]
RatioGT(q, num, den) == q[1] * den > num * q[2]

\* re.sub(r"(?is)<\s*script\b", "&lt;script", s): a "<", any whitespace, the
\* word "script" in any case, not followed by a word character.
ScriptWord == <<"s", "c", "r", "i", "p", "t">>

\* The length of the match of the pattern at the start of s, or 0.
ScriptMatchLen(s) ==
    IF s = <<>> \/ Head(s) # "<" THEN 0
    ELSE LET rest == Tail(s)
             ws == Len(rest) - Len(LStrip(rest))
             end == 1 + ws + Len(ScriptWord)
         IN  IF /\ Len(s) >= end
                /\ Lower(SubSeq(s, 2 + ws, end)) = ScriptWord
                /\ (Len(s) = end \/ s[end + 1] \notin WordChars)
             THEN end
             ELSE 0

EscapedScript == <<"&", "l", "t", ";">> \o ScriptWord

\* sanitize_llm_html replacing the first match only (re.sub with count=1).
RECURSIVE SanitizeFirstOnly(_)
SanitizeFirstOnly(s) ==
    IF s = <<>> THEN <<>>
    ELSE LET m == ScriptMatchLen(s)
         IN  IF m > 0
             THEN EscapedScript \o SubSeq(s, m + 1, Len(s))
             ELSE <<Head(s)>> \o SanitizeFirstOnly(Tail(s))

RECURSIVE sanitize_llm_html(_)
sanitize_llm_html(s) ==
    IF s = <<>> THEN <<>>
    ELSE LET m == ScriptMatchLen(s)
         IN  IF m > 0
             THEN EscapedScript \o sanitize_llm_html(SubSeq(s, m + 1, Len(s)))
             ELSE <<Head(s)>> \o sanitize_llm_html(Tail(s))

----------------------------------------------------------------------------
(* pipeline/generate.py: the processed-links file and candidate picking.   *)

\* load_processed(): the normalized non-blank lines of processed_urls.txt.
load_processed(text) ==
    LET lines == SplitLines(text)
    IN  {normalize_url(lines[i]) : i \in {j \in 1..Len(lines) : Strip(lines[j]) # <<>>}}

\* append_processed(url): the file's text afterwards.
append_processed(text, url) ==
    LET u == normalize_url(url)
        current == RStrip(text)
        sep == IF Strip(current) # <<>> THEN current \o <<"\n">> ELSE current
    IN  IF u \in load_processed(text) THEN text ELSE sep \o u \o <<"\n">>

is_blocked(title, blocked_kw) ==
    \E i \in 1..Len(blocked_kw) : Contains(Lower(title), Lower(blocked_kw[i]))

\* The near-duplicate threshold 0.78 as the quotient SimNum / SimDen.
SimNum == 78
SimDen == 100

\* The token sets of the past articles' non-empty titles.
prev_tok(articles) ==
    {simple_tokens(articles[i].title) :
        i \in {j \in 1..Len(articles) : articles[j].title # <<>>}}

\* too_similar with the test "> 0.8" for ">= 0.78".
TooSimilarAboveFourFifths(title, articles) ==
    \E pt \in prev_tok(articles) :
        RatioGT(jaccard(simple_tokens(title), pt), 4, 5)

too_similar(title, articles) ==
    \E pt \in prev_tok(articles) :
        RatioGE(jaccard(simple_tokens(title), pt), SimNum, SimDen)

\* The loop body's three "continue" tests: an entry that passes all of them
\* is appended to the candidates.
Survives(e, blocked_kw, processed, articles) ==
    LET link == normalize_url(e.link)
    IN  /\ ~(link = <<>> \/ link \in processed)
        /\ ~is_blocked(e.title, blocked_kw)
        /\ ~too_similar(e.title, articles)

\* The entries of one fetched feed document that survive, in document order.
RECURSIVE FilterEntries(_, _, _, _)
FilterEntries(doc, blocked_kw, processed, articles) ==
    IF doc = <<>> THEN <<>>
    ELSE (IF Survives(Head(doc), blocked_kw, processed, articles)
          THEN <<Head(doc)>> ELSE <<>>)
         \o FilterEntries(Tail(doc), blocked_kw, processed, articles)

\* A feed whose fetch or parse raised (requests / ElementTree exception).
FetchFailed == <<[error |-> "fetch"]>>

\* FeedLoop going on to the next feed when one cannot be fetched.
RECURSIVE FeedLoopSkipFailed(_, _, _, _, _, _)
FeedLoopSkipFailed(i, acc, fetched, blocked_kw, processed, articles) ==
    IF i > Len(fetched) THEN [raised |-> FALSE, candidates |-> acc]
    ELSE FeedLoopSkipFailed(i + 1,
                            acc \o IF fetched[i] = FetchFailed THEN <<>>
                                   ELSE FilterEntries(fetched[i], blocked_kw,
                                                      processed, articles),
                            fetched, blocked_kw, processed, articles)

\* The loop over rss_list from feed i on: fetched[i] is what
\* fetch_rss_entries returned for the i-th feed.  An exception leaves the
\* loop and the function; the candidates gathered so far are lost.
RECURSIVE FeedLoop(_, _, _, _, _, _)
FeedLoop(i, acc, fetched, blocked_kw, processed, articles) ==
    IF i > Len(fetched) THEN [raised |-> FALSE, candidates |-> acc]
    ELSE IF fetched[i] = FetchFailed THEN [raised |-> TRUE, candidates |-> <<>>]
    ELSE FeedLoop(i + 1,
                  acc \o FilterEntries(fetched[i], blocked_kw, processed, articles),
                  fetched, blocked_kw, processed, articles)

\* pick_candidate: the outcome ("config" and "feed" are the two exceptions)
\* and, for "ok", the items the function may return: the first candidate,
\* or any candidate under generation.pick_random.
pick_candidate(cfg, processed, articles, fetched) ==
    LET loop == FeedLoop(1, <<>>, fetched, cfg.blocked_keywords, processed, articles)
        cands == loop.candidates
    IN  IF cfg.reddit_rss = <<>> THEN [outcome |-> "config", choices |-> {}]
        ELSE IF loop.raised THEN [outcome |-> "feed", choices |-> {}]
        ELSE IF cands = <<>> THEN [outcome |-> "none", choices |-> {}]
        ELSE [outcome |-> "ok",
              choices |-> IF cfg.pick_random
                          THEN {cands[i] : i \in 1..Len(cands)}
                          ELSE {cands[1]}]

----------------------------------------------------------------------------
(* pipeline/generate.py and pipeline/deepseek.py: article generation.      *)

\* A generation call that raised (requests exception, HTTP error status).
GenFailed == <<"GenFailed">>

TitleTag == <<"t", "i", "t", "l", "e", ":">>

\* Whether \s*\n\s*\n matches at the start of r: the leading whitespace of
\* r holds at least two line ends.
BlankLineAt(r) ==
    LET lead == Len(r) - Len(LStrip(r))
    IN  Cardinality({i \in 1..lead : r[i] = "\n"}) >= 2

\* re.match(r"(?is)^\s*TITLE:\s*(.+?)\s*\n\s*\n(.*)$", out) on the stripped
\* reply, then the fallback to the item's title and the whole reply.  The
\* greedy \s* gives up its whitespace last, the lazy (.+?) grows first.
ParseReply(reply, item_title) ==
    LET out == Strip(reply)
        tagged == Len(out) >= Len(TitleTag)
                  /\ Lower(SubSeq(out, 1, Len(TitleTag))) = TitleTag
        rest == SubSeq(out, Len(TitleTag) + 1, Len(out))
        maxws == Len(rest) - Len(LStrip(rest))
        splits == {p \in (0..maxws) \X (1..Len(rest)) :
                     /\ p[1] + p[2] <= Len(rest)
                     /\ BlankLineAt(SubSeq(rest, p[1] + p[2] + 1, Len(rest)))}
        best == CHOOSE p \in splits :
                    \A q \in splits :
                        p[1] > q[1] \/ (p[1] = q[1] /\ p[2] <= q[2])
    IN  IF tagged /\ splits # {}
        THEN [llm_title |-> Strip(SubSeq(rest, best[1] + 1, best[1] + best[2])),
              llm_html |-> Strip(SubSeq(rest, best[1] + best[2] + 1, Len(rest)))]
        ELSE [llm_title |-> Strip(item_title), llm_html |-> out]

\* DeepSeekClient.chat and deepseek_article: a missing key raises before
\* the request is made; the body is sanitized whichever way it was parsed.
deepseek_article(cfg, item, reply) ==
    LET parsed == ParseReply(reply, item.title)
    IN  IF ~cfg.api_key THEN [raised |-> "config"]
        ELSE IF reply = GenFailed THEN [raised |-> "generation"]
        ELSE [raised |-> "",
              llm_title |-> parsed.llm_title,
              body_html |-> sanitize_llm_html(parsed.llm_html)]

\* slugify() of the python-slugify package, on the characters of the model:
\* lower-case, every run of other characters becomes one hyphen, no hyphen
\* at either end.
\* A run of hyphens becomes its last hyphen.
FollowedByHyphen(p) == p[1] = "-" /\ p[2] = "-"

Squeeze(s) ==
    LET pairs == [i \in 1..Len(s) |-> <<s[i], IF i < Len(s) THEN s[i + 1] ELSE "">>]
        kept == SelectSeq(pairs, LAMBDA p : ~FollowedByHyphen(p))
    IN  [k \in 1..Len(kept) |-> kept[k][1]]

slugify(s) ==
    LET low == Lower(s)
        hyph == [i \in 1..Len(low) |-> IF low[i] \in AlNum THEN low[i] ELSE "-"]
        sq == Squeeze(hyph)
        l == IF sq # <<>> /\ Head(sq) = "-" THEN Tail(sq) ELSE sq
    IN  RStripCh(l, "-")

SlugMax == 80

\* The new archive entry main() builds from the candidate and the generated
\* text on day ymd.  A title with no sluggable character gets the slug
\* "post-<timestamp>"; the model's clock is the day.
NewEntry(cand, llm_title, body_html, ymd) ==
    LET title == IF llm_title # <<>> THEN llm_title ELSE cand.title
        full == slugify(title)
        cut == SubSeq(full, 1, IF Len(full) < SlugMax THEN Len(full) ELSE SlugMax)
        slug == IF cut # <<>> THEN cut ELSE <<"post-", ymd>>
    IN  [id |-> [ymd |-> ymd, slug |-> slug],
         title |-> title,
         published_ts |-> ymd,
         source_url |-> cand.link,
         body_html |-> body_html,
         hero_image |-> cand.hero_image]

\* The site-relative path of an article: "/articles/<id>.html".
ArticlePath(a) == <<"/articles/", a.id.ymd, a.id.slug, ".html">>

----------------------------------------------------------------------------
(* pipeline/generate.py: related articles.                                 *)

\* The most related articles a page lists (k=6).
RelatedMax == 6

\* The least similarity a related article must exceed, 0.05, as the quotient
\* RelNum / RelDen.
RelNum == 5
RelDen == 100

\* Whether the quotient q is greater than the quotient r.
QuotGT(q, r) == q[1] * r[2] > r[1] * q[2]

\* The list "scored" from archive position i on: one pair of similarity and
\* article (named by its position) for every article whose id is not the
\* current article's.
RECURSIVE ScoredFrom(_, _, _, _)
ScoredFrom(i, cur_tok, current, articles) ==
    IF i > Len(articles) THEN <<>>
    ELSE (IF articles[i].id = current.id THEN <<>>
          ELSE <<[sim |-> jaccard(cur_tok, simple_tokens(articles[i].title)),
                  pos |-> i]>>)
         \o ScoredFrom(i + 1, cur_tok, current, articles)

\* scored.sort(key=lambda x: x[0], reverse=True): greatest first; the sort
\* is stable, so pairs of equal similarity keep their order.
RECURSIVE SortScored(_)
SortScored(scored) ==
    IF scored = <<>> THEN <<>>
    ELSE LET x == scored[Len(scored)]
             rest == SortScored(SubSeq(scored, 1, Len(scored) - 1))
             n == Cardinality({i \in 1..Len(rest) : ~QuotGT(x.sim, rest[i].sim)})
         IN  SubSeq(rest, 1, n) \o <<x>> \o SubSeq(rest, n + 1, Len(rest))

\* The pairs of s above the least similarity, in order.
RECURSIVE AboveLeast(_)
AboveLeast(s) ==
    IF s = <<>> THEN <<>>
    ELSE (IF RatioGT(Head(s).sim, RelNum, RelDen) THEN <<Head(s).pos>> ELSE <<>>)
         \o AboveLeast(Tail(s))

\* related_articles(current, articles, k): the archive positions of the
\* articles returned, in the order returned.
related_articles(current, articles, k) ==
    LET cur_tok == simple_tokens(current.title)
        sorted == SortScored(ScoredFrom(1, cur_tok, current, articles))
        top == SubSeq(sorted, 1, IF Len(sorted) < k THEN Len(sorted) ELSE k)
    IN  AboveLeast(top)

----------------------------------------------------------------------------
(* pipeline/generate.py: the site build.                                   *)

ImageExts == {".jpg", ".jpeg", ".png", ".webp"}

\* _guess_ext_from_url: the extension the URL's path ends with, ".jpg" when
\* it ends with none.  An image URL is a sequence of its parts (host, name,
\* extension, "?", query).
GuessExt(u) ==
    LET path == SubSeq(u, 1, FirstIn(u, {"?", "#"}) - 1)
    IN  IF path # <<>> /\ path[Len(path)] \in ImageExts
        THEN path[Len(path)]
        ELSE ".jpg"

\* The cached file of an article's hero image: og/<article id><ext>.
OgKey(a) == [id |-> a.id, ext |-> GuessExt(a.hero_image)]

OgUrl(base_url, a) == <<RStripCh(base_url, "/"), "/og/", OgKey(a)>>

\* cache_og_image without the test for the cached file.
CacheOgImageAlways(base_url, a, cache, dl) ==
    IF a.hero_image = <<>>
    THEN [og_image |-> <<>>, cache |-> cache, requested |-> FALSE]
    ELSE IF dl = "fail"
    THEN [og_image |-> <<>>, cache |-> cache, requested |-> TRUE]
    ELSE [og_image |-> OgUrl(base_url, a),
          cache |-> IF dl = "data" THEN cache \cup {OgKey(a)} ELSE cache,
          requested |-> TRUE]

\* cache_og_image for article a: dl is what the download does if it is
\* made ("fail": an exception, "empty": no bytes, "data": the image).
\* Yields the OG image URL, the cache afterwards and whether a request
\* was made.  An empty download writes no file and still yields the URL.
cache_og_image(base_url, a, cache, dl) ==
    IF a.hero_image = <<>>
    THEN [og_image |-> <<>>, cache |-> cache, requested |-> FALSE]
    ELSE IF OgKey(a) \in cache
    THEN [og_image |-> OgUrl(base_url, a), cache |-> cache, requested |-> FALSE]
    ELSE IF dl = "fail"
    THEN [og_image |-> <<>>, cache |-> cache, requested |-> TRUE]
    ELSE [og_image |-> OgUrl(base_url, a),
          cache |-> IF dl = "data" THEN cache \cup {OgKey(a)} ELSE cache,
          requested |-> TRUE]

\* The files build_site writes before it reads site.contact_email, and the
\* static pages it renders after.
HeadFiles == {"assets/style.css", "robots.txt", "sitemap.xml", "feed.xml", "index.html"}
StaticFiles == {"about.html", "privacy.html", "terms.html", "disclaimer.html",
                "contact.html"}

\* One rendered article page.
Page(a, og_image) == [path |-> ArticlePath(a), title |-> a.title, og_image |-> og_image]

\* pages with the file at pg.path replaced by pg (write_text overwrites).
WritePage(pages, pg) == {q \in pages : q.path # pg.path} \cup {pg}

\* The loop over the articles from the k-th on.  st holds the article
\* pages on disk, the image cache and the log of the downloads requested
\* so far: for which article, of which file, with what result.
RECURSIVE RenderArticles(_, _, _, _, _)
RenderArticles(k, articles, cfg, st, dls) ==
    IF k > Len(articles) THEN st
    ELSE LET a == articles[k]
             og == IF cfg.cache_images
                   THEN cache_og_image(cfg.base_url, a, st.cache, dls[k])
                   ELSE [og_image |-> <<>>, cache |-> st.cache, requested |-> FALSE]
             got == [st EXCEPT !.cache = og.cache,
                               !.downloads =
                                   IF og.requested
                                   THEN Append(@, [idx |-> k, key |-> OgKey(a),
                                                   outcome |-> dls[k]])
                                   ELSE @]
         IN  RenderArticles(k + 1, articles, cfg,
                            [got EXCEPT !.pages = WritePage(@, Page(a, og.og_image))],
                            dls)

\* build_site: the site directory and the image cache afterwards, the
\* downloads requested, and the exception that ended the build, if any.
\* robots.txt, the sitemap, the feed and the home page are written first;
\* a missing site.contact_email raises (KeyError) when the static pages
\* are put together, before any of them is rendered.
build_site(cfg, articles, site, cache, dls) ==
    LET head == [files |-> site.files \cup HeadFiles,
                 sitemap |-> [i \in 1..Len(articles) |-> ArticlePath(articles[i])],
                 pages |-> site.pages]
        st == RenderArticles(1, articles, cfg,
                             [pages |-> site.pages, cache |-> cache, downloads |-> <<>>],
                             dls)
    IN  IF ~cfg.has_contact_email
        THEN [site |-> head, cache |-> cache, downloads |-> <<>>, raised |-> "config"]
        ELSE [site |-> [head EXCEPT !.files = @ \cup StaticFiles, !.pages = st.pages],
              cache |-> st.cache, downloads |-> st.downloads, raised |-> ""]

\* Python's None, and a file that does not exist.
None == [none |-> TRUE]

\* LastRunRecord reporting an article whatever the outcome.
LastRunRecordCreated(base_url, cand, entry) ==
    [created |-> TRUE, article_url |-> <<>>, source_url |-> <<>>]

\* write_last_run's record for the two outcomes of main().
LastRunRecord(base_url, cand, entry) ==
    IF cand = None
    THEN [created |-> FALSE, article_url |-> <<>>, source_url |-> <<>>]
    ELSE [created |-> TRUE,
          article_url |-> <<RStripCh(Strip(base_url), "/")>> \o ArticlePath(entry),
          source_url |-> cand.link]

----------------------------------------------------------------------------
(* The deployment: configuration, feeds and generator replies.             *)

\* Runs start only while processed_urls.txt holds fewer lines than this
\* (every run that archives an article adds a line first).
MaxLinks == 2

\* The UTC date of the runs, as strftime("%Y-%m-%d") gives it.
Today == <<"2026", "-", "11", "-", "04">>

\* config.json (and the DEEPSEEK_API_KEY of the environment), read-only
\* for the life of a deployment.
NoConfig == [exists |-> FALSE]

Configs ==
    {NoConfig} \cup
    [exists : {TRUE},
     base_url : {<<>>, <<"h", "/">>},
     has_contact_email : BOOLEAN,
     reddit_rss : {<<>>, <<"f1", "f2">>},
     blocked_keywords : {<<>>, <<<<"E", "e">>>>},
     pick_random : BOOLEAN,
     cache_images : BOOLEAN,
     api_key : BOOLEAN]

Word(c) == <<c, c, c>>
Sp == <<" ">>

TitleABCD == Word("a") \o Sp \o Word("b") \o Sp \o Word("c") \o Sp \o Word("d")
TitleABCDE == TitleABCD \o Sp \o Word("e")
TitleABC == Word("a") \o Sp \o Word("b") \o Sp \o Word("c")
HeroPng == <<"i.redd.it/", "x", ".png", "?", "w">>
HeroBare == <<"preview.redd.it/", "y">>

\* Feed entries as fetch_rss_entries returns them: title and link stripped
\* and non-empty.
EntrySlash == [title |-> <<"a", "b">>, link |-> <<"/">>, hero_image |-> <<>>]
EntryU == [title |-> TitleABCD, link |-> <<"u", "/", "?", "v">>, hero_image |-> HeroPng]
EntryV == [title |-> TitleABCDE, link |-> <<"v">>, hero_image |-> <<>>]
EntryW == [title |-> TitleABC, link |-> <<"v", " ", "/">>, hero_image |-> HeroBare]

\* What one fetch of each feed can return.
FeedResults(rss) ==
    IF rss = "f1"
    THEN {FetchFailed, <<>>, <<EntrySlash, EntryU, EntryV>>}
    ELSE {FetchFailed, <<EntryW>>}

\* What the generation call can return.
ReplyTitled ==
    <<"T", "I", "T", "L", "E", ":", " ", "A", "a", "a", ",", " ", "b", "b", "b", "\n", "\n",
      "<", "s", "c", "r", "i", "p", "t", ">", "x">>
ReplyBare == <<"x", "<", " ", "S", "C", "R", "I", "P", "T", " ", "x">>

Replies == {GenFailed, ReplyTitled, ReplyBare}

DlOutcomes == {"fail", "empty", "data"}

----------------------------------------------------------------------------
(* The state.                                                              *)

VARIABLES
    cfg,            \* config.json and the environment
    processedFile,  \* the text of processed_urls.txt
    articlesFile,   \* data/articles.json: the archive, newest first
    lastRun,        \* data/last_run.json
    site,           \* the site directory, without og/
    ogCache,        \* the files of og/
    ranFlag,        \* whether .lite_ran exists
    pc,             \* where main() is
    err,            \* the exception that ended the last run, "" if none
    fetched,        \* what the feeds returned to pick_candidate, until main() moves on
    cand,           \* the candidate picked by this run
    entry,          \* the archive entry made by this run
    downloads,      \* the log of the image downloads this run's build requested
    feedCalled,     \* whether this run fetched a feed
    genCalled,      \* whether this run sent a generation request
    start,          \* the persisted state when this run began
    answer,         \* a generation reply under study, as the pieces received
    made,           \* the entry lines 425-444 build from that reply
    archive,        \* an archive under study, newest first
    related         \* the related articles build_site lists for each of its articles

persisted ==
    [processedFile |-> processedFile, articlesFile |-> articlesFile, lastRun |-> lastRun,
     site |-> site, ogCache |-> ogCache, ranFlag |-> ranFlag]

\* The variables of the specifications that study one function on its own;
\* a run of main() never touches them.
fnVars == <<answer, made, archive, related>>

\* The variables a run of main() reads and writes.
runVars == <<cfg, processedFile, articlesFile, lastRun, site, ogCache, ranFlag,
             pc, err, fetched, cand, entry, downloads, feedCalled, genCalled, start>>

vars == <<cfg, processedFile, articlesFile, lastRun, site, ogCache, ranFlag,
          pc, err, fetched, cand, entry, downloads, feedCalled, genCalled, start,
          answer, made, archive, related>>

Init ==
    /\ cfg \in Configs
    /\ processedFile = <<>>
    /\ articlesFile = <<>>
    /\ lastRun = None
    /\ site = [files |-> {}, sitemap |-> <<>>, pages |-> {}]
    /\ ogCache = {}
    /\ ranFlag = FALSE
    /\ pc = "idle"
    /\ err = ""
    /\ fetched = <<>>
    /\ cand = None
    /\ entry = None
    /\ downloads = <<>>
    /\ feedCalled = FALSE
    /\ genCalled = FALSE
    /\ start = persisted
    /\ answer = <<>>
    /\ made = None
    /\ archive = <<>>
    /\ related = <<>>

\* The feeds main() got to before the first failure.
FetchedPrefix(f) ==
    SubSeq(f, 1, IF FirstIn(f, {FetchFailed}) < Len(f) THEN FirstIn(f, {FetchFailed}) ELSE Len(f))

\* What the feeds of rss_list can return, one answer per feed.
FeedAnswers(rss_list) ==
    {f \in [1..Len(rss_list) -> UNION {FeedResults(rss_list[i]) : i \in 1..Len(rss_list)}] :
        \A i \in 1..Len(rss_list) : f[i] \in FeedResults(rss_list[i])}

\* Precheck without the test of the one-shot marker.
PrecheckNoMarker(flag, c) ==
    IF ~c.exists THEN "config"
    ELSE IF Strip(c.base_url) = <<>> THEN "config"
    ELSE ""

\* The checks main() makes before it reads any state: the one-shot marker,
\* then config.json, then site.base_url.  "" when all pass.
Precheck(flag, c) ==
    IF flag THEN "reentry"
    ELSE IF ~c.exists THEN "config"
    ELSE IF Strip(c.base_url) = <<>> THEN "config"
    ELSE ""

\* main() from its first line to the return of pick_candidate.
StartRun ==
    /\ UNCHANGED fnVars
    /\ pc = "idle"
    /\ ranFlag \/ Len(SplitLines(processedFile)) < MaxLinks
    /\ start' = persisted
    /\ entry' = None
    /\ downloads' = <<>>
    /\ genCalled' = FALSE
    /\ UNCHANGED <<cfg, processedFile, articlesFile, lastRun, site, ogCache, ranFlag>>
    /\ IF Precheck(ranFlag, cfg) # ""
       THEN /\ pc' = "failed"
            /\ err' = Precheck(ranFlag, cfg)
            /\ fetched' = <<>>
            /\ cand' = None
            /\ feedCalled' = FALSE
       ELSE \E f \in FeedAnswers(cfg.reddit_rss) :
              LET got == pick_candidate(cfg, load_processed(processedFile),
                                        articlesFile, f)
              IN  /\ fetched' = FetchedPrefix(f)
                  /\ feedCalled' = (f # <<>>)
                  /\ IF got.outcome \in {"config", "feed"}
                     THEN /\ pc' = "failed"
                          /\ err' = got.outcome
                          /\ cand' = None
                     ELSE IF got.outcome = "none"
                     THEN /\ pc' = "nocand"
                          /\ err' = ""
                          /\ cand' = None
                     ELSE /\ pc' = "picked"
                          /\ err' = ""
                          /\ cand' \in got.choices

\* Lines 425-444: the generation call and the new entry.
Generate ==
    /\ UNCHANGED fnVars
    /\ pc = "picked"
    /\ \E reply \in Replies :
         LET r == deepseek_article(cfg, cand, reply)
         IN  /\ genCalled' = cfg.api_key
             /\ IF r.raised # ""
                THEN /\ pc' = "failed"
                     /\ err' = r.raised
                     /\ entry' = None
                ELSE /\ pc' = "generated"
                     /\ err' = ""
                     /\ entry' = NewEntry(cand, r.llm_title, r.body_html, Today)
    /\ fetched' = <<>>
    /\ UNCHANGED <<cfg, processedFile, articlesFile, lastRun, site, ogCache,
                   ranFlag, cand, downloads, feedCalled, start>>

\* Line 446.
MarkProcessed ==
    /\ UNCHANGED fnVars
    /\ pc = "generated"
    /\ processedFile' = append_processed(processedFile, cand.link)
    /\ pc' = "marked"
    /\ UNCHANGED <<cfg, articlesFile, lastRun, site, ogCache, ranFlag, err,
                   fetched, cand, entry, downloads, feedCalled, genCalled, start>>

\* InsertEntry appending at the end.
InsertEntryAtEnd(e, articles) == articles \o <<e>>

\* The archive after articles.insert(0, entry).
InsertEntry(e, articles) == <<e>> \o articles

\* Lines 447-448.
WriteArchive ==
    /\ UNCHANGED fnVars
    /\ pc = "marked"
    /\ articlesFile' = InsertEntry(entry, articlesFile)
    /\ pc' = "written"
    /\ UNCHANGED <<cfg, processedFile, lastRun, site, ogCache, ranFlag, err,
                   fetched, cand, entry, downloads, feedCalled, genCalled, start>>

\* Line 420 or 450: build_site on the archive main() holds.
BuildSite ==
    /\ UNCHANGED fnVars
    /\ pc \in {"nocand", "written"}
    /\ \E dls \in [1..Len(articlesFile) -> DlOutcomes] :
         LET b == build_site(cfg, articlesFile, site, ogCache, dls)
         IN  /\ site' = b.site
             /\ ogCache' = b.cache
             /\ downloads' = b.downloads
             /\ err' = b.raised
             /\ pc' = IF b.raised = "" THEN "built" ELSE "failed"
    /\ fetched' = <<>>
    /\ UNCHANGED <<cfg, processedFile, articlesFile, lastRun, ranFlag,
                   cand, entry, feedCalled, genCalled, start>>

\* Line 421 or 452.
WriteLastRun ==
    /\ UNCHANGED fnVars
    /\ pc = "built"
    /\ lastRun' = LastRunRecord(cfg.base_url, cand, entry)
    /\ pc' = "recorded"
    /\ UNCHANGED <<cfg, processedFile, articlesFile, site, ogCache, ranFlag, err,
                   fetched, cand, entry, downloads, feedCalled, genCalled, start>>

\* Line 422 or 454: the completion marker.
SetFlag ==
    /\ UNCHANGED fnVars
    /\ pc = "recorded"
    /\ ranFlag' = TRUE
    /\ pc' = "done"
    /\ UNCHANGED <<cfg, processedFile, articlesFile, lastRun, site, ogCache, err,
                   fetched, cand, entry, downloads, feedCalled, genCalled, start>>

\* The process dies between two steps (an I/O error, a kill).
Abort ==
    /\ UNCHANGED fnVars
    /\ pc \notin {"idle", "done", "failed"}
    /\ pc' = "failed"
    /\ err' = "aborted"
    /\ fetched' = <<>>
    /\ UNCHANGED <<cfg, processedFile, articlesFile, lastRun, site, ogCache,
                   ranFlag, cand, entry, downloads, feedCalled, genCalled, start>>

\* The process exits: what main() held in memory is gone.
Exit ==
    /\ UNCHANGED fnVars
    /\ pc \in {"done", "failed"}
    /\ pc' = "idle"
    /\ err' = ""
    /\ fetched' = <<>>
    /\ cand' = None
    /\ entry' = None
    /\ downloads' = <<>>
    /\ feedCalled' = FALSE
    /\ genCalled' = FALSE
    /\ start' = persisted
    /\ UNCHANGED <<cfg, processedFile, articlesFile, lastRun, site, ogCache, ranFlag>>

\* config.json is removed between two runs.
RemoveConfig ==
    /\ UNCHANGED fnVars
    /\ pc = "idle"
    /\ cfg.exists
    /\ cfg' = NoConfig
    /\ UNCHANGED <<processedFile, articlesFile, lastRun, site, ogCache, ranFlag,
                   pc, err, fetched, cand, entry, downloads, feedCalled, genCalled, start>>

Next ==
    \/ StartRun
    \/ Generate
    \/ MarkProcessed
    \/ WriteArchive
    \/ BuildSite
    \/ WriteLastRun
    \/ SetFlag
    \/ Abort
    \/ Exit
    \/ RemoveConfig

Spec == Init /\ [][Next]_vars

----------------------------------------------------------------------------
(* deepseek_article on its own: every reply the generation call can return *)
(* out of a few pieces of text.                                            *)

\* The most pieces a reply is made of.
MaxPieces == 4

\* The pieces: what the pattern of sanitize_llm_html and the TITLE format of
\* deepseek_article tell apart.  The last one is a title line and the blank
\* line after it.
Pieces ==
    {<<"<">>, Sp, <<"\n">>, <<"x">>, ScriptWord,
     <<"S", "C", "R", "I", "P", "T">>,
     <<"T", "I", "T", "L", "E", ":", "t", "\n", "\n">>}

\* The text of a reply received as the pieces ps.
RECURSIVE Flatten(_)
Flatten(ps) == IF ps = <<>> THEN <<>> ELSE Head(ps) \o Flatten(Tail(ps))

\* The item the article is generated for.
GenItem == EntryV

GenInit ==
    /\ Init
    /\ cfg = NoConfig

\* DeepSeekClient.chat returns: one more piece of the reply has arrived.
ReplyGrows ==
    /\ made = None
    /\ Len(answer) < MaxPieces
    /\ \E p \in Pieces : answer' = Append(answer, p)
    /\ UNCHANGED <<made, archive, related>>
    /\ UNCHANGED runVars

\* Lines 425-444 on the reply: deepseek_article, then the entry.
ReplyParsed ==
    /\ made = None
    /\ LET r == deepseek_article([api_key |-> TRUE], GenItem, Flatten(answer))
       IN  made' = NewEntry(GenItem, r.llm_title, r.body_html, Today)
    /\ UNCHANGED <<answer, archive, related>>
    /\ UNCHANGED runVars

GenNext ==
    \/ ReplyGrows
    \/ ReplyParsed

GenSpec == GenInit /\ [][GenNext]_vars

----------------------------------------------------------------------------
(* related_articles on its own: the archives a day's runs can write out of *)
(* a few titles.                                                           *)

\* The most articles an archive holds.
MaxArchive == 8

\* Three generated titles: one token; two tokens, one of them shared; and
\* twenty tokens, two of them shared.
TitleA == Word("a")
TitleAB == Word("a") \o Sp \o Word("b")
TitleLong ==
    TitleABCDE \o Sp \o Word("h") \o Sp \o Word("i") \o Sp \o Word("l") \o Sp
    \o Word("p") \o Sp \o Word("r") \o Sp \o Word("s") \o Sp \o Word("t") \o Sp
    \o Word("u") \o Sp \o Word("v") \o Sp \o Word("x") \o Sp \o Word("0") \o Sp
    \o Word("1") \o Sp \o Word("2") \o Sp \o <<"a", "a", "b">> \o Sp \o <<"a", "b", "b">>

RelTitles == {TitleA, TitleAB, TitleLong}

RelInit ==
    /\ Init
    /\ cfg = NoConfig

\* Lines 425-448 of one more run of the day: the entry made from a
\* generated title goes to the front of the archive.
ArchiveGrows ==
    /\ related = <<>>
    /\ Len(archive) < MaxArchive
    /\ \E title \in RelTitles :
          archive' = InsertEntry(NewEntry(GenItem, title, <<>>, Today), archive)
    /\ UNCHANGED <<answer, made, related>>
    /\ UNCHANGED runVars

\* Lines 374-375: build_site asks for the related articles of every article.
RelatedComputed ==
    /\ related = <<>>
    /\ archive # <<>>
    /\ related' = [i \in 1..Len(archive) |->
                      related_articles(archive[i], archive, RelatedMax)]
    /\ UNCHANGED <<answer, made, archive>>
    /\ UNCHANGED runVars

RelNext ==
    \/ ArchiveGrows
    \/ RelatedComputed

RelSpec == RelInit /\ [][RelNext]_vars

----------------------------------------------------------------------------
(* The claims.                                                             *)

\* C1  One-shot guard: a run begun with the completion marker present is a
\* fatal re-entrancy error raised before anything else (also before a
\* missing config.json is noticed), and it changes nothing: the persisted
\* state is as the run found it, no feed was fetched, no generation
\* request sent.
OneShotGuard ==
    (pc # "idle" /\ start.ranFlag) =>
        /\ pc = "failed"
        /\ err = "reentry"
        /\ persisted = start
        /\ ~feedCalled
        /\ ~genCalled
        /\ cand = None
        /\ entry = None

\* A run refused after an earlier run archived an article and completed.
OneShotWitness ==
    /\ pc = "failed"
    /\ err = "reentry"
    /\ articlesFile # <<>>
    /\ lastRun # None
    /\ lastRun.created

\* C2  At-most-once effect: over any sequence of runs, aborted ones
\* included, at most one run adds an article to the archive.  The archive
\* starts empty and a run inserts at most one article, so the number of
\* runs that added one is the length of the archive.
AtMostOnceEffect == Len(articlesFile) <= 1

\* C3  Processed-link invariant: the processed-link set a run leaves holds
\* the set the run found, and the normalized source_url of every archived
\* article is in the persisted processed-link set.
ProcessedLinkInvariant ==
    /\ load_processed(start.processedFile) \subseteq load_processed(processedFile)
    /\ \A i \in 1..Len(articlesFile) :
           normalize_url(articlesFile[i].source_url) \in load_processed(processedFile)

\* C4  Archive id uniqueness: no two articles of the persisted archive
\* share an id.
ArchiveIdsUnique ==
    \A i, j \in 1..Len(articlesFile) :
        i # j => articlesFile[i].id # articlesFile[j].id

\* The site directory holds a full build of the archive articles: the
\* fixed files, a sitemap of the archive's paths in archive order, and a
\* page of an archived article at every path of the archive.
SiteBuiltFrom(articles) ==
    /\ HeadFiles \cup StaticFiles \subseteq site.files
    /\ site.sitemap = [i \in 1..Len(articles) |-> ArticlePath(articles[i])]
    /\ \A i \in 1..Len(articles) :
         \E pg \in site.pages :
            /\ pg.path = ArticlePath(articles[i])
            /\ \E j \in 1..Len(articles) :
                  ArticlePath(articles[j]) = pg.path /\ articles[j].title = pg.title

ConfigErrorNoSideEffect ==
    (pc = "failed" /\ err = "config") => persisted = start

\* C8  No partial-feed continuation: when one of the feeds fetched could
\* not be fetched or parsed, the run has failed on it: no candidate, no
\* entry, no generation request, the persisted state as the run found it
\* and the marker not set.
NoPartialFeedContinuation ==
    (\E i \in 1..Len(fetched) : fetched[i] = FetchFailed) =>
        /\ pc = "failed"
        /\ err = "feed"
        /\ cand = None
        /\ entry = None
        /\ ~genCalled
        /\ persisted = start
        /\ ~ranFlag

\* The second feed failed after the first returned an entry that passes
\* every filter.
NoPartialFeedWitness ==
    /\ err = "feed"
    /\ Len(fetched) = 2
    /\ fetched[1] # FetchFailed
    /\ \E k \in 1..Len(fetched[1]) :
          /\ normalize_url(fetched[1][k].link) # <<>>
          /\ normalize_url(fetched[1][k].link) \notin load_processed(processedFile)
          /\ ~is_blocked(fetched[1][k].title, cfg.blocked_keywords)

\* The items the feeds returned, in feed-then-entry order.
RECURSIVE FetchedItems(_)
FetchedItems(f) ==
    IF f = <<>> THEN <<>>
    ELSE (IF Head(f) = FetchFailed THEN <<>> ELSE Head(f)) \o FetchedItems(Tail(f))

\* The three conditions of the claim on an item, against the processed
\* links and the archive on disk.
Eligible(e) ==
    /\ normalize_url(e.link) # <<>>
    /\ normalize_url(e.link) \notin load_processed(processedFile)
    /\ \A k \in 1..Len(cfg.blocked_keywords) :
          ~Contains(Lower(e.title), Lower(cfg.blocked_keywords[k]))
    /\ \A i \in 1..Len(articlesFile) :
          LET sim == jaccard(simple_tokens(e.title), simple_tokens(articlesFile[i].title))
          IN  sim[1] * 100 < 78 * sim[2]

\* C9  Candidate selection: the item pick_candidate returned is one of the
\* fetched items, has a non-empty normalized link outside the processed
\* set, a title with no blocked keyword and a similarity below 0.78 to
\* every archived title; without random pick no fetched item before it
\* meets the three conditions; and pick_candidate returned none exactly
\* when no fetched item meets them.
CandidateSelection ==
    LET items == FetchedItems(fetched)
    IN  /\ pc = "picked" =>
              \E k \in 1..Len(items) :
                  /\ items[k] = cand
                  /\ Eligible(cand)
                  /\ ~cfg.pick_random => \A j \in 1..(k - 1) : ~Eligible(items[j])
        /\ pc = "nocand" => \A k \in 1..Len(items) : ~Eligible(items[k])

\* The first feed's items are dropped for an empty link, a processed link
\* and a near-duplicate title, and the second feed's item is picked.
CandidateSelectionWitness ==
    /\ pc = "picked"
    /\ ~cfg.pick_random
    /\ cfg.blocked_keywords = <<>>
    /\ fetched = <<<<EntrySlash, EntryU, EntryV>>, <<EntryW>>>>
    /\ cand = EntryW
    /\ normalize_url(EntryU.link) \in load_processed(processedFile)
    /\ normalize_url(EntryV.link) \notin load_processed(processedFile)

\* C10  Hero image caching: in a completed build with caching enabled,
\* every download requested is for an article with a hero image whose
\* cached file neither existed when the build began nor was written
\* earlier in the build; an article with a hero image and no cached file
\* is downloaded; the cache afterwards is the cache before plus the files
\* downloaded; the page of an article whose download failed has no OG
\* image; and every article of the archive has its page.
HeroImageCaching ==
    (pc \in {"built", "recorded", "done"} /\ cfg.cache_images) =>
        LET arts == articlesFile
            wrote(d) == {downloads[e].key : e \in {x \in 1..d : downloads[x].outcome = "data"}}
            before(i) == {d \in 1..Len(downloads) : downloads[d].idx < i}
            cachedAt(i) ==
                start.ogCache \cup
                {downloads[d].key : d \in {x \in before(i) : downloads[x].outcome = "data"}}
        IN  /\ \A d \in 1..Len(downloads) :
                  /\ downloads[d].idx \in 1..Len(arts)
                  /\ arts[downloads[d].idx].hero_image # <<>>
                  /\ downloads[d].key = OgKey(arts[downloads[d].idx])
                  /\ downloads[d].key \notin start.ogCache
                  /\ downloads[d].key \notin wrote(d - 1)
            /\ \A i \in 1..Len(arts) :
                  (arts[i].hero_image # <<>> /\ OgKey(arts[i]) \notin cachedAt(i)) =>
                      \E d \in 1..Len(downloads) : downloads[d].idx = i
            /\ ogCache = start.ogCache \cup wrote(Len(downloads))
            /\ \A d \in 1..Len(downloads) :
                  (/\ downloads[d].outcome = "fail"
                   /\ \A j \in (downloads[d].idx + 1)..Len(arts) :
                         ArticlePath(arts[j]) # ArticlePath(arts[downloads[d].idx])) =>
                      \E pg \in site.pages :
                          /\ pg.path = ArticlePath(arts[downloads[d].idx])
                          /\ pg.og_image = <<>>
            /\ SiteBuiltFrom(arts)

\* A build in which the first article's download fails and the second
\* article's image is already cached: the second is not requested and
\* both pages are rendered.
HeroImageCachingWitness ==
    /\ pc = "built"
    /\ cfg.cache_images
    /\ Len(articlesFile) = 2
    /\ Len(downloads) = 1
    /\ downloads[1].idx = 1
    /\ downloads[1].outcome = "fail"
    /\ articlesFile[2].hero_image # <<>>
    /\ OgKey(articlesFile[2]) \in start.ogCache
    /\ \E pg \in site.pages :
          pg.path = ArticlePath(articlesFile[2]) /\ pg.og_image # <<>>

----------------------------------------------------------------------------
(* Sanitization of the generated body (GenSpec).                           *)

\* The body deepseek_article takes from the reply, before it is sanitized.
ReplyBody == ParseReply(Flatten(answer), GenItem.title).llm_html

\* Whether the reply matched the TITLE / blank line / body format.
ReplyTitledFormat ==
    LET out == Strip(Flatten(answer))
    IN  /\ Len(out) >= Len(TitleTag)
        /\ Lower(SubSeq(out, 1, Len(TitleTag))) = TitleTag
        /\ \E i \in (Len(TitleTag) + 2)..Len(out) :
               BlankLineAt(SubSeq(out, i, Len(out)))

\* A script opener at position i of s: a "<", any whitespace, then the word
\* "script" in any letter case, ending at a word boundary.
OpenerAt(s, i) ==
    /\ s[i] = "<"
    /\ \E j \in (i + 1)..(Len(s) - Len(ScriptWord) + 1) :
          /\ \A k \in (i + 1)..(j - 1) : s[k] \in Whitespace
          /\ Lower(SubSeq(s, j, j + Len(ScriptWord) - 1)) = ScriptWord
          /\ (j + Len(ScriptWord) > Len(s) \/ s[j + Len(ScriptWord)] \notin WordChars)

Openers(s) == {i \in 1..Len(s) : OpenerAt(s, i)}

\* The places of s where the escaped form "&lt;script" stands.
Escapes(s) ==
    {i \in 1..(Len(s) - Len(EscapedScript) + 1) :
        SubSeq(s, i, i + Len(EscapedScript) - 1) = EscapedScript}

\* C11 as stated: for every generator output, matching the format or not,
\* the archived body_html contains no "<script" tag opener, and a body in
\* which the text "<script" (in any letter case) does not occur is archived
\* unchanged.
ScriptTextSanitized ==
    made # None =>
        /\ \A i \in Openers(made.body_html) :
              made.body_html[i + 1] \in Whitespace
        /\ ~Contains(Lower(ReplyBody), <<"<">> \o ScriptWord) =>
              made.body_html = ReplyBody

\* C11 as amended: for every generator output, matching the format or not,
\* every script opener of the body (a "<", any whitespace, the word "script"
\* in any letter case) is rewritten to "&lt;script", so the archived
\* body_html contains no such opener and one escaped form more for every
\* opener the body had; a body with no such opener is archived unchanged.
ScriptOpenersEscaped ==
    made # None =>
        /\ Openers(made.body_html) = {}
        /\ Cardinality(Escapes(made.body_html)) =
              Cardinality(Escapes(ReplyBody)) + Cardinality(Openers(ReplyBody))
        /\ Openers(ReplyBody) = {} => made.body_html = ReplyBody

\* A reply in the TITLE format whose body is "< script": the archived body
\* is the escaped form alone, under the title the reply gave.
ScriptOpenersEscapedWitness ==
    /\ made # None
    /\ ReplyTitledFormat
    /\ made.title = <<"t">>
    /\ ReplyBody = <<"<", " ">> \o ScriptWord
    /\ made.body_html = EscapedScript

----------------------------------------------------------------------------
(* Related-articles ranking (RelSpec).                                     *)

\* The token sets of the archive's titles, by archive position.
TitleTokens == [i \in 1..Len(archive) |-> simple_tokens(archive[i].title)]

\* The title-token similarities: Sims(toks)[i][j] for the articles at the
\* archive positions i and j.
Sims(toks) ==
    [i \in 1..Len(archive) |-> [j \in 1..Len(archive) |-> jaccard(toks[i], toks[j])]]

\* Whether, by the similarities sim to the current article, the article at
\* m comes before the article at j in the ranking: greater similarity, or
\* the same similarity and earlier in the archive.
Ahead(sim, m, j) ==
    \/ QuotGT(sim[m], sim[j])
    \/ (~QuotGT(sim[j], sim[m]) /\ m < j)

\* The ranking for the current article i over the articles at the positions
\* others, checked on the list rel: at most six, none of them the current
\* article, each more similar than 0.05, in ranking order, and every
\* article of others that is more similar than 0.05 and has fewer than six
\* of the others ahead of it is listed.
Ranked(i, sim, others, rel) ==
    /\ Len(rel) <= RelatedMax
    /\ \A p \in 1..Len(rel) :
          /\ rel[p] # i
          /\ RatioGT(sim[rel[p]], RelNum, RelDen)
    /\ \A p, q \in 1..Len(rel) : p < q => Ahead(sim, rel[p], rel[q])
    /\ \A j \in others :
          (/\ RatioGT(sim[j], RelNum, RelDen)
           /\ Cardinality({m \in others \ {j} : Ahead(sim, m, j)}) < RelatedMax) =>
              \E p \in 1..Len(rel) : rel[p] = j

\* C12  Related-articles ranking: for every article of every archive, the
\* related articles are at most 6, never the current article itself, only
\* articles whose title-token similarity to the current title is greater
\* than 0.05, in descending similarity with ties in archive order, and no
\* article that qualifies among the 6 most similar of the other articles
\* is left out.
RelatedRanking ==
    related # <<>> =>
        \A toks \in {TitleTokens} :
            \A sims \in {Sims(toks)} :
                \A i \in 1..Len(archive) :
                    \A sim \in {sims[i]} :
                        Ranked(i, sim, (1..Len(archive)) \ {i}, related[i])

\* The same ranking over the articles whose id is not the current
\* article's id, which is what the id test of related_articles compares.
RelatedRankingAmongOtherIds ==
    related # <<>> =>
        \A toks \in {TitleTokens} :
            \A sims \in {Sims(toks)} :
                \A i \in 1..Len(archive) :
                    \A sim \in {sims[i]} :
                        Ranked(i, sim,
                               {j \in 1..Len(archive) : archive[j].id # archive[i].id},
                               related[i])

====
